---- MODULE Spec2Model ----
(***************************************************************************)
(* A stack machine with linear memory, locals, a function table and        *)
(* structured control flow (src/5_.py, class Machine).  One state of the   *)
(* model is one point of the Python interpreter's run of the machine: the  *)
(* chain of active execute() invocations (frames), the exception that is   *)
(* propagating (exc), the operand stack (items), the byte memory, the      *)
(* locals dictionaries of the active calls and the log of host calls.      *)
(***************************************************************************)
EXTENDS Integers, Sequences, FiniteSets, TLC

VARIABLES functions, items, memory, frames, dicts, exc, status, hostLog, input, setupPc, last

vars == <<functions, items, memory, frames, dicts, exc, status, hostLog, input, setupPc, last>>

(***************************************************************************)
(* Bounds of the model.                                                    *)
(***************************************************************************)
\* memsize given to Machine(functions, memsize); the default is 65536
MemSize == 16
\* the operand stack holds at most this many values (a push beyond it is not taken)
MaxStack == 5
\* at most this many nested execute() invocations (Python's recursion limit)
MaxFrames == 6
\* numbers stay within -MaxNum .. MaxNum (an arithmetic result beyond is not taken)
MaxNum == 704
\* at most this many host calls are logged
MaxHost == 462
\* the memory may grow to at most MemSize + MaxGrow bytes
MaxGrow == 8
\* locals dictionaries have the keys 0 .. NumLocals-1
NumLocals == 3

(***************************************************************************)
(* Values.  A Python value on the stack, in a local or as a literal is a   *)
(* record: t is its Python type, v its integer value (True is 1), and raw  *)
(* the 8 bytes of a float that is not an integer of the modelled range.    *)
(***************************************************************************)
IntV(n) == [t |-> "int", v |-> n, raw |-> <<>>]
FloatV(n) == [t |-> "float", v |-> n, raw |-> <<>>]
BoolV(b) == [t |-> "bool", v |-> IF b THEN 1 ELSE 0, raw |-> <<>>]
NoneV == [t |-> "none", v |-> 0, raw |-> <<>>]
RawV(bytes) == [t |-> "f64raw", v |-> 0, raw |-> bytes]
\* the entry of a locals dictionary for a key it does not hold
Unset == [t |-> "unset", v |-> 0, raw |-> <<>>]

IsNumber(x) == x.t \in {"int", "float", "bool"}
IsIndex(x) == x.t \in {"int", "bool"}

\* mutant: every condition counts as true
Truthy_Always(x) == TRUE

\* Python's truth value of x, as `if self.pop():` takes it
Truthy(x) == CASE x.t = "none" -> FALSE
               [] x.t = "f64raw" -> x.raw # <<0, 0, 0, 0, 0, 0, 0, 128>>
               [] OTHER -> x.v # 0

Abs(n) == IF n < 0 THEN -n ELSE n

RECURSIVE Pow2(_)
Pow2(k) == IF k <= 0 THEN 1 ELSE 2 * Pow2(k - 1)

RECURSIVE Log2(_)
Log2(n) == IF n <= 1 THEN 0 ELSE 1 + Log2(n \div 2)

ZeroBytes(n) == [i \in 1..n |-> 0]

(***************************************************************************)
(* struct.pack("<d", val): the IEEE-754 double of val, 8 bytes, least      *)
(* significant first.  pack[8] holds the sign and the high 7 bits of the   *)
(* biased exponent, pack[7] the low 4 bits of the exponent and the top 4   *)
(* bits of the fraction, pack[6] the next 8 bits of the fraction.          *)
(***************************************************************************)
F64Bytes_NoSign(n) ==
    IF n = 0 THEN ZeroBytes(8)
    ELSE LET m == Abs(n)
             e == Log2(m)
             E == 1023 + e
             top12 == (m - Pow2(e)) * Pow2(12 - e)
         IN <<0, 0, 0, 0, 0, top12 % 256, (E % 16) * 16 + (top12 \div 256), E \div 16>>

F64Bytes(n) ==
    IF n = 0 THEN ZeroBytes(8)
    ELSE LET m == Abs(n)
             e == Log2(m)
             E == 1023 + e
             top12 == (m - Pow2(e)) * Pow2(12 - e)
             sgn == IF n < 0 THEN 128 ELSE 0
         IN <<0, 0, 0, 0, 0, top12 % 256, (E % 16) * 16 + (top12 \div 256), sgn + (E \div 16)>>

PackOk(val) == val.t \in {"int", "float", "bool", "f64raw"}

pack(val) == IF val.t = "f64raw" THEN val.raw ELSE F64Bytes(val.v)

(***************************************************************************)
(* struct.unpack("<d", bytes)[0]: a float.  The doubles that are integers  *)
(* below 2^13 in magnitude are decoded to their value; any other bit       *)
(* pattern is kept as the float with these 8 bytes.                        *)
(***************************************************************************)
unpack(b) ==
    IF b = ZeroBytes(8) THEN FloatV(0)
    ELSE LET E == (b[8] % 128) * 16 + (b[7] \div 16)
             e == E - 1023
             top12 == (b[7] % 16) * 256 + b[6]
             neg == b[8] >= 128
         IN IF /\ e >= 0 /\ e <= 12
               /\ \A i \in 1..5 : b[i] = 0
               /\ top12 % Pow2(12 - e) = 0
            THEN LET m == Pow2(e) + (top12 \div Pow2(12 - e))
                 IN FloatV(IF neg THEN -m ELSE m)
            ELSE RawV(b)

(***************************************************************************)
(* Python's slice memory[addr : addr + 8] of a bytearray of length n: the  *)
(* bounds are clamped as slice.indices() clamps them.                      *)
(***************************************************************************)
Clamp(i, n) == IF i < 0 THEN (IF i + n < 0 THEN 0 ELSE i + n)
               ELSE (IF i > n THEN n ELSE i)

SliceStart(addr, n) == Clamp(addr, n)
SliceStop(addr, n) ==
    LET a == Clamp(addr, n)
        b == Clamp(addr + 8, n)
    IN IF b < a THEN a ELSE b

\* memory[addr : addr + 8]
Slice(mem, addr) == SubSeq(mem, SliceStart(addr, Len(mem)) + 1, SliceStop(addr, Len(mem)))

\* Machine.load: struct.unpack raises struct.error unless the slice has 8 bytes
LoadOk(mem, addr) == Len(Slice(mem, addr)) = 8
load(mem, addr) == unpack(Slice(mem, addr))

\* Machine.store: the slice is replaced by the 8 packed bytes
store(mem, addr, val) ==
    SubSeq(mem, 1, SliceStart(addr, Len(mem)))
        \o pack(val)
        \o SubSeq(mem, SliceStop(addr, Len(mem)) + 1, Len(mem))

(***************************************************************************)
(* The operand stack: Machine.push appends, Machine.pop removes the last.  *)
(***************************************************************************)
push(s, item) == Append(s, item)
PopOk(s) == Len(s) > 0
popped(s) == s[Len(s)]
pop(s) == SubSeq(s, 1, Len(s) - 1)

(***************************************************************************)
(* Instructions: a tuple (op, *args) of the instruction stream.  n is the  *)
(* integer argument (local slot, function index, branch level), val the    *)
(* literal of a const and body the nested sequence of a block or a loop.   *)
(***************************************************************************)
Op(op) == [op |-> op, n |-> 0, val |-> NoneV, body |-> <<>>]
OpN(op, n) == [op |-> op, n |-> n, val |-> NoneV, body |-> <<>>]
Const(v) == [op |-> "const", n |-> 0, val |-> v, body |-> <<>>]
Block(body) == [op |-> "block", n |-> 0, val |-> NoneV, body |-> body]
Loop(body) == [op |-> "loop", n |-> 0, val |-> NoneV, body |-> body]

(***************************************************************************)
(* The function table holds Function(nparams, returns, code) and           *)
(* ImportFunction(nparams, returns, call) objects; `results` is the set of *)
(* values the host callable of an import may return.                       *)
(***************************************************************************)
Function(nparams, returns, code) ==
    [kind |-> "Function", nparams |-> nparams, returns |-> returns, code |-> code,
     results |-> {}]
ImportFunction(nparams, returns, results) ==
    [kind |-> "ImportFunction", nparams |-> nparams, returns |-> returns, code |-> <<>>,
     results |-> results]

\* self.functions[i] with Python's indexing: a negative i counts from the end
IndexOk(seq, i) == i >= -Len(seq) /\ i < Len(seq)
IndexPos(seq, i) == IF i < 0 THEN Len(seq) + i + 1 ELSE i + 1

(***************************************************************************)
(* The exception in flight.  level is Break.level; calls counts the        *)
(* Machine.call invocations the exception has left since it was raised.    *)
(***************************************************************************)
NoExc == [type |-> "None", level |-> 0, what |-> "", calls |-> 0]
Break(level) == [type |-> "Break", level |-> level, what |-> "", calls |-> 0]
Return == [type |-> "Return", level |-> 0, what |-> "", calls |-> 0]
Error(what) == [type |-> "Error", level |-> 0, what |-> what, calls |-> 0]

(***************************************************************************)
(* Frames: one per active execute() invocation, the innermost last.  kind  *)
(* says who invoked it (the driver, a block, a loop, Machine.call), pc is  *)
(* the position of the for loop in `code`, locals the index in `dicts` of  *)
(* the dictionary passed as `locals` (0: None), fn the called function and *)
(* entry the operand stack right after the arguments of the call were      *)
(* popped.                                                                 *)
(***************************************************************************)
Frame(kind, code, locals, fn, entry) ==
    [kind |-> kind, code |-> code, pc |-> 1, locals |-> locals, fn |-> fn, entry |-> entry]

Top == frames[Len(frames)]
Ins == Top.code[Top.pc]
Advance(fs) == [fs EXCEPT ![Len(fs)].pc = @ + 1]
PopFrame(fs) == SubSeq(fs, 1, Len(fs) - 1)

\* the for loop of execute() has an instruction to dispatch
Fetching == /\ status = "running"
            /\ exc.type = "None"
            /\ Len(frames) > 0
            /\ Top.pc <= Len(Top.code)

\* the for loop of execute() is exhausted
Exhausted == /\ status = "running"
             /\ exc.type = "None"
             /\ Len(frames) > 0
             /\ Top.pc > Len(Top.code)

\* an exception is propagating out of the innermost execute()
Raising == /\ status = "running"
           /\ exc.type # "None"
           /\ Len(frames) > 0

\* dict(enumerate(args))
DictOf(args) == [i \in 1..NumLocals |-> IF i <= Len(args) THEN args[i] ELSE Unset]

Reverse(s) == [i \in 1..Len(s) |-> s[Len(s) - i + 1]]

\* the instruction ends normally with the stack s: the for loop goes on
Continue(s, name) ==
    /\ Len(s) <= MaxStack
    /\ items' = s
    /\ frames' = Advance(frames)
    /\ last' = name
    /\ UNCHANGED <<functions, exc, status, input, setupPc>>

\* the instruction raises e with the stack s
Raise(s, e, name) ==
    /\ items' = s
    /\ exc' = e
    /\ last' = name
    /\ UNCHANGED <<functions, memory, frames, dicts, status, hostLog, input, setupPc>>

(***************************************************************************)
(* The instructions of Machine.execute, one action per branch of the       *)
(* dispatch.                                                               *)
(***************************************************************************)
\* op == "const": self.push(args[0])
op_const ==
    /\ Fetching /\ Ins.op = "const"
    /\ Continue(push(items, Ins.val), "const")
    /\ UNCHANGED <<memory, dicts, hostLog>>

\* the result type of Python's arithmetic on int, bool and float operands
NumType(l, r) == IF l.t = "float" \/ r.t = "float" THEN "float" ELSE "int"

\* mutant: the operands are taken in the order they were popped
BinaryResult_Swapped(op, l, r) ==
    CASE op = "add" -> [t |-> NumType(l, r), v |-> r.v + l.v, raw |-> <<>>]
      [] op = "sub" -> [t |-> NumType(l, r), v |-> r.v - l.v, raw |-> <<>>]
      [] op = "mul" -> [t |-> NumType(l, r), v |-> r.v * l.v, raw |-> <<>>]
      [] op = "le" -> BoolV(r.v <= l.v)
      [] op = "ge" -> BoolV(r.v >= l.v)

\* left + right, left - right, left * right, left <= right, left >= right
BinaryResult(op, l, r) ==
    CASE op = "add" -> [t |-> NumType(l, r), v |-> l.v + r.v, raw |-> <<>>]
      [] op = "sub" -> [t |-> NumType(l, r), v |-> l.v - r.v, raw |-> <<>>]
      [] op = "mul" -> [t |-> NumType(l, r), v |-> l.v * r.v, raw |-> <<>>]
      [] op = "le" -> BoolV(l.v <= r.v)
      [] op = "ge" -> BoolV(l.v >= r.v)

\* right = self.pop(); left = self.pop(); self.push(left <op> right)
Binary(op) ==
    /\ Fetching /\ Ins.op = op
    /\ UNCHANGED <<memory, dicts, hostLog>>
    /\ IF Len(items) < 2
       THEN Raise(<<>>, Error("IndexError"), op)
       ELSE LET right == popped(items)
                left == popped(pop(items))
                rest == pop(pop(items))
            IN IF left.t = "none" \/ right.t = "none"
               THEN Raise(rest, Error("TypeError"), op)
               ELSE /\ IsNumber(left) /\ IsNumber(right)
                    /\ Abs(BinaryResult(op, left, right).v) <= MaxNum
                    /\ Continue(push(rest, BinaryResult(op, left, right)), op)

op_add == Binary("add")
op_sub == Binary("sub")
op_mul == Binary("mul")
op_le == Binary("le")
op_ge == Binary("ge")

\* addr = self.pop(); self.push(self.load(addr))
op_load ==
    /\ Fetching /\ Ins.op = "load"
    /\ UNCHANGED <<memory, dicts, hostLog>>
    /\ IF ~PopOk(items)
       THEN Raise(items, Error("IndexError"), "load")
       ELSE LET addr == popped(items)
            IN IF ~IsIndex(addr)
               THEN Raise(pop(items), Error("TypeError"), "load")
               ELSE IF ~LoadOk(memory, addr.v)
               THEN Raise(pop(items), Error("struct.error"), "load")
               ELSE Continue(push(pop(items), load(memory, addr.v)), "load")

\* var = self.pop(); addr = self.pop(); self.store(addr, var)
op_store ==
    /\ Fetching /\ Ins.op = "store"
    /\ UNCHANGED <<dicts, hostLog>>
    /\ IF Len(items) < 2
       THEN /\ Raise(<<>>, Error("IndexError"), "store")
       ELSE LET var == popped(items)
                addr == popped(pop(items))
                rest == pop(pop(items))
            IN IF ~PackOk(var)
               THEN Raise(rest, Error("struct.error"), "store")
               ELSE IF ~IsIndex(addr)
               THEN Raise(rest, Error("TypeError"), "store")
               ELSE /\ Len(store(memory, addr.v, var)) <= MemSize + MaxGrow
                    /\ memory' = store(memory, addr.v, var)
                    /\ Continue(rest, "store")

\* the dictionary passed to execute() as `locals`
HasLocals == Top.locals # 0

\* mutant: the dictionary of the first activation
Locals_First == dicts[1]

Locals == dicts[Top.locals]

\* self.push(locals[args[0]])
op_local_get ==
    /\ Fetching /\ Ins.op = "local.get"
    /\ UNCHANGED <<memory, dicts, hostLog>>
    /\ IF ~HasLocals
       THEN Raise(items, Error("TypeError"), "local.get")
       ELSE IF Locals[Ins.n + 1] = Unset
       THEN Raise(items, Error("KeyError"), "local.get")
       ELSE Continue(push(items, Locals[Ins.n + 1]), "local.get")

\* mutant: one dictionary of locals for the whole machine
op_local_set_Shared ==
    /\ Fetching /\ Ins.op = "local.set"
    /\ UNCHANGED <<memory, hostLog>>
    /\ IF ~PopOk(items)
       THEN Raise(items, Error("IndexError"), "local.set") /\ UNCHANGED dicts
       ELSE IF ~HasLocals
       THEN Raise(pop(items), Error("TypeError"), "local.set")
       ELSE /\ dicts' = [i \in 1..Len(dicts) |->
                            [dicts[i] EXCEPT ![Ins.n + 1] = popped(items)]]
            /\ Continue(pop(items), "local.set")

\* locals[args[0]] = self.pop()
op_local_set ==
    /\ Fetching /\ Ins.op = "local.set"
    /\ UNCHANGED <<memory, hostLog>>
    /\ IF ~PopOk(items)
       THEN Raise(items, Error("IndexError"), "local.set") /\ UNCHANGED dicts
       ELSE IF ~HasLocals
       THEN Raise(pop(items), Error("TypeError"), "local.set")
       ELSE /\ dicts' = [dicts EXCEPT ![Top.locals][Ins.n + 1] = popped(items)]
            /\ Continue(pop(items), "local.set")

\* raise Break(args[0])
op_br ==
    /\ Fetching /\ Ins.op = "br"
    /\ Raise(items, Break(Ins.n), "br")

\* if self.pop(): raise Break(args[0])
op_br_if ==
    /\ Fetching /\ Ins.op = "br_if"
    /\ IF ~PopOk(items)
       THEN Raise(items, Error("IndexError"), "br_if")
       ELSE IF Truthy(popped(items))
       THEN Raise(pop(items), Break(Ins.n), "br_if")
       ELSE Continue(pop(items), "br_if") /\ UNCHANGED <<memory, dicts, hostLog>>

\* raise Return()
op_return ==
    /\ Fetching /\ Ins.op = "return"
    /\ Raise(items, Return, "return")

\* raise RuntimeError(f"Bad op {op}")
KnownOps == {"const", "add", "sub", "mul", "load", "store", "local.get", "local.set",
             "call", "br", "br_if", "block", "loop", "return", "le", "ge"}
op_bad ==
    /\ Fetching /\ Ins.op \notin KnownOps
    /\ Raise(items, Error("RuntimeError"), "bad")

\* a nested self.execute(args[0], locals) begins
Enter(kind) ==
    /\ Fetching /\ Ins.op = kind
    /\ Len(frames) < MaxFrames
    /\ frames' = Append(frames, Frame(kind, Ins.body, Top.locals, 0, <<>>))
    /\ last' = kind
    /\ UNCHANGED <<functions, items, memory, dicts, exc, status, hostLog, input, setupPc>>

op_block == Enter("block")
op_loop == Enter("loop")

\* [self.pop() for _ in range(func.nparams)]
Pops(s, nparams) == [i \in 1..nparams |-> s[Len(s) - i + 1]]

\* mutant: the popped values are not reversed
fargs_Unreversed(s, nparams) == Pops(s, nparams)

\* fargs = reversed([self.pop() for _ in range(func.nparams)])
fargs(s, nparams) == Reverse(Pops(s, nparams))

\* the stack once the nparams arguments are popped
AfterPops(s, nparams) == SubSeq(s, 1, Len(s) - nparams)

\* mutant: the result is dropped
PushResult_Drops(s, returns, result) == s

\* mutant: the result is pushed whatever func.returns is
PushResult_Always(s, returns, result) == push(s, result)

\* what `if func.returns: self.push(result)` leaves on the stack s
PushResult(s, returns, result) == IF returns THEN push(s, result) ELSE s

(***************************************************************************)
(* op == "call": the function is looked up, its arguments are popped, and  *)
(* Machine.call either starts execute(func.code, locals) on a new          *)
(* dictionary (Function) or calls the host callable (ImportFunction).      *)
(***************************************************************************)
op_call ==
    /\ Fetching /\ Ins.op = "call"
    /\ IF ~IndexOk(functions, Ins.n)
       THEN Raise(items, Error("IndexError"), "call")
       ELSE LET pos == IndexPos(functions, Ins.n)
                func == functions[pos]
            IN IF Len(items) < func.nparams
               THEN Raise(<<>>, Error("IndexError"), "call")
               ELSE IF func.kind = "Function"
               THEN /\ Len(frames) < MaxFrames
                    /\ frames' = Append(frames,
                           Frame("call", func.code, Len(dicts) + 1, pos,
                                 AfterPops(items, func.nparams)))
                    /\ dicts' = Append(dicts, DictOf(fargs(items, func.nparams)))
                    /\ items' = AfterPops(items, func.nparams)
                    /\ last' = "call"
                    /\ UNCHANGED <<functions, memory, exc, status, hostLog, input, setupPc>>
               ELSE /\ Len(hostLog) < MaxHost
                    /\ hostLog' = Append(hostLog,
                           [fn |-> pos, args |-> fargs(items, func.nparams)])
                    /\ \E result \in func.results :
                           Continue(PushResult(AfterPops(items, func.nparams),
                                               func.returns, result), "call_import")
                    /\ UNCHANGED <<memory, dicts>>

(***************************************************************************)
(* The for loop of an execute() invocation is exhausted: it returns to     *)
(* whoever invoked it.                                                     *)
(***************************************************************************)
\* Machine.call after execute(): `if func.returns: return self.pop()`, and the
\* call instruction's `if func.returns: self.push(result)`
AfterCall(name) ==
    /\ dicts' = PopFrame(dicts)
    /\ last' = name
    /\ UNCHANGED <<functions, memory, status, hostLog, input, setupPc>>
    /\ IF functions[Top.fn].returns /\ ~PopOk(items)
       THEN /\ frames' = PopFrame(frames)
            /\ exc' = Error("IndexError")
            /\ items' = items
       ELSE /\ frames' = Advance(PopFrame(frames))
            /\ exc' = NoExc
            /\ items' = IF functions[Top.fn].returns
                        THEN PushResult(pop(items), TRUE, popped(items))
                        ELSE items

\* the top-level execute() returns to the driver
run_end ==
    /\ Exhausted /\ Top.kind = "top"
    /\ status' = "done"
    /\ frames' = <<>>
    /\ last' = "run_end"
    /\ UNCHANGED <<functions, items, memory, dicts, exc, hostLog, input, setupPc>>

\* the body of a block ran to its end: the instruction after the block is next
block_end ==
    /\ Exhausted /\ Top.kind = "block"
    /\ frames' = Advance(PopFrame(frames))
    /\ last' = "block_end"
    /\ UNCHANGED <<functions, items, memory, dicts, exc, status, hostLog, input, setupPc>>

\* mutant: the loop runs its body again when the body ran to its end
LoopOnEnd_Again(fs) == [fs EXCEPT ![Len(fs)].pc = 1]

\* where control goes when the body of a loop ran to its end (`break`)
LoopOnEnd(fs) == Advance(PopFrame(fs))

loop_end ==
    /\ Exhausted /\ Top.kind = "loop"
    /\ frames' = LoopOnEnd(frames)
    /\ last' = "loop_end"
    /\ UNCHANGED <<functions, items, memory, dicts, exc, status, hostLog, input, setupPc>>

call_end ==
    /\ Exhausted /\ Top.kind = "call"
    /\ AfterCall("call_end")

(***************************************************************************)
(* An exception leaves the innermost execute() invocation and reaches the  *)
(* except clause, if any, of whoever invoked it.                           *)
(***************************************************************************)
\* mutant: the level is not decremented
Reraised_Same(e) == e

\* b.level -= 1; raise
Reraised(e) == [e EXCEPT !.level = @ - 1]

\* mutant: the block runs its body again, as a loop does
BlockOnBreak_Again(fs) == [fs EXCEPT ![Len(fs)].pc = 1]

\* except Break of a block with b.level = 0: the block is left
BlockOnBreak(fs) == Advance(PopFrame(fs))

\* mutant: the loop is left, as a block is
LoopOnBreak_Leaves(fs) == Advance(PopFrame(fs))

\* except Break of a loop with b.level = 0: `while True` runs the body again
LoopOnBreak(fs) == [fs EXCEPT ![Len(fs)].pc = 1]

\* the exception passes the construct
Passes(e, name) ==
    /\ frames' = PopFrame(frames)
    /\ exc' = e
    /\ last' = name
    /\ UNCHANGED <<functions, items, memory, dicts, status, hostLog, input, setupPc>>

\* the construct swallows the exception and control goes on with the frames fs
Swallows(fs, name) ==
    /\ frames' = fs
    /\ exc' = NoExc
    /\ last' = name
    /\ UNCHANGED <<functions, items, memory, dicts, status, hostLog, input, setupPc>>

block_except ==
    /\ Raising /\ Top.kind = "block"
    /\ IF exc.type = "Break"
       THEN IF exc.level > 0
            THEN Passes(Reraised(exc), "block_reraise")
            ELSE Swallows(BlockOnBreak(frames), "block_break")
       ELSE Passes(exc, "block_pass")

loop_except ==
    /\ Raising /\ Top.kind = "loop"
    /\ IF exc.type = "Break"
       THEN IF exc.level > 0
            THEN Passes(Reraised(exc), "loop_reraise")
            ELSE Swallows(LoopOnBreak(frames), "loop_break")
       ELSE Passes(exc, "loop_pass")

\* mutant: Machine.call has no `except Return`
LeavesCall_All(e) == TRUE

LeavesCall_OnlyBreak(e) == e.type = "Break"

\* what Machine.call lets through: everything but Return
LeavesCall(e) == e.type # "Return"

call_except ==
    /\ Raising /\ Top.kind = "call"
    /\ IF LeavesCall(exc)
       THEN /\ frames' = PopFrame(frames)
            /\ dicts' = PopFrame(dicts)
            /\ exc' = [exc EXCEPT !.calls = @ + 1]
            /\ last' = "call_pass"
            /\ UNCHANGED <<functions, items, memory, status, hostLog, input, setupPc>>
       ELSE AfterCall("call_return")

\* mutant: the top-level sequence swallows a Break as a block does
uncaught_AsBlock ==
    /\ Raising /\ Top.kind = "top"
    /\ status' = IF exc.type = "Break" THEN "done" ELSE "aborted"
    /\ frames' = <<>>
    /\ exc' = IF exc.type = "Break" THEN NoExc ELSE exc
    /\ last' = "uncaught"
    /\ UNCHANGED <<functions, items, memory, dicts, hostLog, input, setupPc>>

\* nothing catches the exception: the run is aborted
uncaught ==
    /\ Raising /\ Top.kind = "top"
    /\ status' = "aborted"
    /\ frames' = <<>>
    /\ last' = "uncaught"
    /\ UNCHANGED <<functions, items, memory, dicts, exc, hostLog, input, setupPc>>

(***************************************************************************)
(* The driver, as example() drives the machine: m = Machine(functions),    *)
(* then m.store(...) and m.push(...) calls that set memory and stack up,   *)
(* then m.execute(code, None).                                             *)
(***************************************************************************)
ExtStore(addr, val) == [call |-> "store", addr |-> addr, val |-> val]
ExtPush(val) == [call |-> "push", addr |-> 0, val |-> val]

Setup == input.setup[setupPc]

\* m.store(addr, val)
ext_store ==
    /\ status = "idle" /\ setupPc <= Len(input.setup) /\ Setup.call = "store"
    /\ memory' = store(memory, Setup.addr, Setup.val)
    /\ setupPc' = setupPc + 1
    /\ last' = "ext_store"
    /\ UNCHANGED <<functions, items, frames, dicts, exc, status, hostLog, input>>

\* m.push(item)
ext_push ==
    /\ status = "idle" /\ setupPc <= Len(input.setup) /\ Setup.call = "push"
    /\ items' = push(items, Setup.val)
    /\ setupPc' = setupPc + 1
    /\ last' = "ext_push"
    /\ UNCHANGED <<functions, memory, frames, dicts, exc, status, hostLog, input>>

\* m.execute(code, None)
run ==
    /\ status = "idle" /\ setupPc > Len(input.setup)
    /\ frames' = <<Frame("top", input.code, 0, 0, <<>>)>>
    /\ status' = "running"
    /\ last' = "run"
    /\ UNCHANGED <<functions, items, memory, dicts, exc, hostLog, input, setupPc>>

(***************************************************************************)
(* The inputs: function tables, set-up calls and instruction sequences.    *)
(***************************************************************************)
Seqs12(A) == {<<a>> : a \in A} \cup {<<a, b>> : a \in A, b \in A}

T == BoolV(TRUE)
F == BoolV(FALSE)

\* update_position of example(): x + v * dt
update_position ==
    Function(3, TRUE, <<OpN("local.get", 0), OpN("local.get", 1), OpN("local.get", 2),
                        Op("mul"), Op("add")>>)

\* display_player of example(): returns=None, the callable returns None
display_player == ImportFunction(1, FALSE, {NoneV})

\* an import that returns a value
host_value == ImportFunction(2, TRUE, {FloatV(5), NoneV})

\* a function that calls function 2 and goes on
calls_g == Function(0, TRUE, <<Const(IntV(1)), Const(IntV(2)), OpN("call", 2), Const(IntV(8))>>)

Table(g) == <<update_position, display_player, g, host_value, calls_g>>

Input(family, fns, setup, code) ==
    [family |-> family, functions |-> fns, setup |-> setup, code |-> code]

\* control flow: nested blocks and loops with branches and returns
CtlAtoms == {Const(T), Const(F), OpN("br", 0), OpN("br", 1), OpN("br", 2),
             OpN("br_if", 0), OpN("br_if", 1), Op("return")}
CtlBody0 == Seqs12(CtlAtoms)
CtlInner == {Block(b) : b \in CtlBody0} \cup {Loop(b) : b \in CtlBody0}
CtlBody1 == {<<c>> : c \in CtlInner}
              \cup {<<a, c>> : a \in CtlAtoms, c \in CtlInner}
              \cup {<<c, a>> : c \in CtlInner, a \in CtlAtoms}
CtlOuter == {Block(b) : b \in CtlBody0 \cup CtlBody1}
              \cup {Loop(b) : b \in CtlBody0 \cup CtlBody1}
NoG == Function(0, FALSE, <<>>)
CtlInputs == {Input("ctl", Table(NoG), <<>>, <<o, Const(IntV(9))>>) : o \in CtlOuter}

\* calls of a Function: bodies that return, branch out, or leave values
GAtoms == {Const(IntV(7)), OpN("local.get", 0), OpN("local.get", 1), Op("return"),
           OpN("br", 0), OpN("br", 1), Const(T), OpN("br_if", 0)}
GBody0 == Seqs12(GAtoms)
GBodies == {<<>>} \cup GBody0
             \cup {<<Block(b)>> : b \in GBody0} \cup {<<Loop(b)>> : b \in GBody0}
             \cup {<<Block(<<Loop(b)>>), Const(IntV(6))>> : b \in GBody0}
GFuncs == {Function(np, r, b) : np \in {0, 2}, r \in BOOLEAN, b \in GBodies}
CallG == <<Const(IntV(1)), Const(IntV(2)), OpN("call", 2), Const(IntV(8))>>
Callers == {CallG \o <<Const(IntV(9))>>,
            <<Block(CallG), Const(IntV(9))>>,
            <<Loop(CallG), Const(IntV(9))>>,
            <<Block(<<OpN("call", 4), Const(IntV(8))>>), Const(IntV(9))>>}
CallInputs == {Input("call", Table(g), <<ExtPush(IntV(5))>>, c) : g \in GFuncs, c \in Callers}

\* example(): x and v are stored, the program stores x + v * dt at x
ScenarioB(xa, va, dt) ==
    <<Const(IntV(xa)), Const(IntV(xa)), Op("load"), Const(IntV(va)), Op("load"),
      Const(FloatV(dt)), OpN("call", 0), Op("store")>>
DataAddrs == {0, 4, 8}
DataVals == {2, 3, -1}
DataSteps == {1, 2}
Prestacks == {<<>>, <<ExtPush(IntV(5))>>}
ScenarioSetup(pre, xa, x0, va, v0) ==
    pre \o <<ExtStore(xa, FloatV(x0)), ExtStore(va, FloatV(v0))>>
DataInputs ==
    {Input("data", Table(NoG), ScenarioSetup(pre, xa, x0, va, v0), ScenarioB(xa, va, dt)) :
        pre \in Prestacks, xa \in DataAddrs, x0 \in DataVals, va \in DataAddrs,
        v0 \in DataVals, dt \in DataSteps}

\* calls of the imports, at the top level and inside a block and a loop
CallHost(f) == <<Const(IntV(1)), Const(FloatV(2)), OpN("call", f)>>
HostInputs ==
    {Input("host", Table(NoG), pre, c) : pre \in Prestacks,
        c \in UNION {{CallHost(f), <<Block(CallHost(f)), Const(IntV(9))>>,
                      <<Loop(CallHost(f) \o <<Const(T), OpN("br_if", 0)>>)>>,
                      <<Loop(CallHost(f) \o <<OpN("br", 0)>>)>>} : f \in {1, 3}}}

\* arithmetic, comparisons, locals, memory accesses and an unknown opcode
ArithVals == {IntV(-2), IntV(3), FloatV(3)}
ArithOps == {"add", "sub", "mul", "le", "ge"}
SetsLocal == Function(2, TRUE, <<OpN("local.get", 1), OpN("local.set", 2), OpN("local.get", 2),
                                 OpN("local.get", 0), Op("sub")>>)
MiscCode ==
    {<<Const(a), Const(b), Op(op)>> : a \in ArithVals, b \in ArithVals, op \in ArithOps}
      \cup {<<Const(IntV(a)), Op("load")>> : a \in {-9, -4, 0, 9, 16}}
      \cup {<<Const(IntV(a)), Const(IntV(3)), Op("store"), Const(IntV(a)), Op("load")>> :
                a \in {-9, -4, 0, 9, 16}}
      \cup {<<Const(IntV(1)), Const(IntV(2)), Const(FloatV(3)), Op("mul"), Op("add")>>,
            <<Const(IntV(1)), OpN("local.set", 0)>>,
            <<Const(IntV(4)), Const(IntV(1)), OpN("call", 2)>>,
            <<Op("nop")>>}
MiscInputs == {Input("misc", Table(SetsLocal), <<>>, c) : c \in MiscCode}

\* a store followed by a load of the same address, after an earlier store that may
\* overlap it or lie outside the memory
StoreLoad(a, v) == <<Const(IntV(a)), Const(v), Op("store"), Const(IntV(a)), Op("load")>>
MemAddrs == {0, 3, 8}
MemVals == {IntV(3), FloatV(-2), IntV(70), FloatV(0)}
EarlierAddrs == {0, 4, 5, 8, 12, -4}
EarlierVals == {FloatV(3), FloatV(-1)}
MemInputs ==
    {Input("mem", Table(NoG), <<ExtStore(a1, v1)>>, StoreLoad(a, v)) :
        a1 \in EarlierAddrs, v1 \in EarlierVals, a \in MemAddrs, v \in MemVals}

\* operands of the wrong kind, and function indices around both ends of the table
EdgeCalls == {-6, -5, -4, -1, 5, 7}
EdgeCode ==
    {<<Const(a), Const(b), Op(op)>> :
        a \in {T, IntV(3)}, b \in {F, IntV(1)}, op \in {"add", "sub", "mul"}}
      \cup {<<Block(<<Const(c), OpN("br_if", 0), Const(IntV(8))>>), Const(IntV(9))>> :
                c \in {IntV(0), IntV(2), FloatV(3), T}}
      \cup {<<Const(IntV(4)), Const(IntV(1)), OpN("call", f)>> : f \in EdgeCalls}
EdgeInputs == {Input("edge", Table(SetsLocal), pre, c) : pre \in Prestacks, c \in EdgeCode}

\* failing instructions at depth: inside blocks and loops, of the caller and of a
\* called function
Failing == {Op("nop"), Op("add"), Op("load"), OpN("br_if", 0), OpN("local.get", 2),
            OpN("local.set", 0)}
Nest(body) == {body,
               <<Block(body), Const(IntV(7))>>,
               <<Loop(body), Const(IntV(7))>>,
               <<Loop(<<Block(body), Const(IntV(7))>>), Const(IntV(7))>>}
FailsIn(bad) == Function(1, TRUE, <<Loop(<<Block(<<bad, Const(IntV(8))>>), Const(IntV(6))>>)>>)
ErrDirect ==
    {Input("err", Table(NoG), <<>>, c \o <<Const(IntV(9))>>) :
        c \in UNION {Nest(<<bad, Const(IntV(8))>>) : bad \in Failing}}
ErrCalled ==
    {Input("err", Table(FailsIn(bad)), pre, c \o <<Const(IntV(9))>>) :
        bad \in Failing, pre \in Prestacks,
        c \in Nest(<<Const(IntV(1)), OpN("call", 2), Const(IntV(8))>>)
                \cup Nest(<<OpN("call", 2), Const(IntV(8))>>)}
ErrInputs == ErrDirect \cup ErrCalled

\* functions that set locals: Recursive calls itself for n - 1 and then overwrites
\* its own slot 0; Counts sets slot 1 in a block and counts it down in a loop
Recursive ==
    Function(1, TRUE,
        <<Block(<<OpN("local.get", 0), Const(IntV(0)), Op("le"), OpN("br_if", 0),
                  OpN("local.get", 0), Const(IntV(1)), Op("sub"), OpN("call", 5),
                  OpN("local.set", 1)>>),
          OpN("local.get", 0), Const(IntV(7)), OpN("local.set", 0)>>)
Counts ==
    Function(1, TRUE,
        <<Block(<<Const(IntV(4)), OpN("local.set", 1)>>),
          Loop(<<OpN("local.get", 1), Const(IntV(1)), Op("sub"), OpN("local.set", 1),
                 OpN("local.get", 1), Const(IntV(3)), Op("ge"), OpN("br_if", 0)>>),
          OpN("local.get", 1), OpN("local.get", 0), Op("add")>>)
LocalsTable == Table(SetsLocal) \o <<Recursive, Counts>>
LocalsArgs == {0, 1}
LocalsInputs ==
    {Input("locals", LocalsTable, pre, <<Const(IntV(a)), OpN("call", f)>>) :
        pre \in Prestacks, a \in LocalsArgs, f \in {5, 6}}

\* two constants and a binary operator, on an empty and on a non-empty stack
ArithNums == {IntV(-2), IntV(0), IntV(3), FloatV(3), FloatV(-1)}
ArithStacks == {<<>>, <<ExtPush(IntV(5))>>, <<ExtPush(T), ExtPush(FloatV(2))>>}
ArithInputs ==
    {Input("arith", Table(NoG), pre, <<Const(a), Const(b), Op(op)>>) :
        pre \in ArithStacks, a \in ArithNums, b \in ArithNums, op \in ArithOps}

\* the second program of example(): the player moves right until x >= limit, turns,
\* and moves left until x <= 0.  x, the limit and v * dt are in units of 0.1, the
\* step of the program, so that x = 2.3 is 23, 70.0 is 700 and v * dt = 3.0 * 0.1 is 3.
Demo(xa, va, dt, limit) ==
    <<Block(<<Loop(<<
        Const(IntV(xa)), Op("load"), OpN("call", 1),
        Const(IntV(xa)), Op("load"), Const(FloatV(0)), Op("le"), OpN("br_if", 1),
        Const(IntV(xa)), Const(IntV(xa)), Op("load"), Const(IntV(va)), Op("load"),
        Const(FloatV(dt)), OpN("call", 0), Op("store"),
        Block(<<Const(IntV(xa)), Op("load"), Const(FloatV(limit)), Op("ge"),
                Block(<<OpN("br_if", 0), OpN("br", 1)>>),
                Const(IntV(va)), Const(FloatV(0)), Const(IntV(va)), Op("load"),
                Op("sub"), Op("store")>>),
        OpN("br", 0)>>)>>)>>
DemoX == 23
DemoV == 3
DemoLimit == 700
DemoInputs ==
    {Input("demo", Table(NoG), ScenarioSetup(<<>>, 0, DemoX, 8, DemoV),
           Demo(0, 8, 1, DemoLimit))}

Inputs == CtlInputs \cup CallInputs \cup DataInputs \cup HostInputs \cup MiscInputs
            \cup MemInputs \cup EdgeInputs \cup ErrInputs \cup LocalsInputs
            \cup ArithInputs \cup DemoInputs

Init ==
    /\ input \in Inputs
    /\ functions = input.functions
    /\ items = <<>>
    /\ memory = ZeroBytes(MemSize)
    /\ frames = <<>>
    /\ dicts = <<>>
    /\ exc = NoExc
    /\ status = "idle"
    /\ hostLog = <<>>
    /\ setupPc = 1
    /\ last = "init"

Next ==
    \/ ext_store \/ ext_push \/ run
    \/ op_const \/ op_add \/ op_sub \/ op_mul \/ op_le \/ op_ge
    \/ op_load \/ op_store \/ op_local_get \/ op_local_set
    \/ op_call \/ op_br \/ op_br_if \/ op_return \/ op_bad
    \/ op_block \/ op_loop
    \/ run_end \/ block_end \/ loop_end \/ call_end
    \/ block_except \/ loop_except \/ call_except \/ uncaught

Spec == Init /\ [][Next]_vars

(***************************************************************************)
(* Properties.                                                             *)
(***************************************************************************)
Nine == Const(IntV(9))

\* a br, or a br_if whose condition was true, has just raised Break(0) in the body
\* of a construct of the given kind: that construct is the innermost one around it
BranchedIn(kind) ==
    /\ Raising
    /\ last \in {"br", "br_if"}
    /\ exc.type = "Break" /\ exc.level = 0
    /\ Top.kind = kind

\* control is at the instruction that follows the innermost construct
AfterConstruct == frames' = Advance(PopFrame(frames))

\* the innermost construct starts its body again
BodyAgain == frames' = [frames EXCEPT ![Len(frames)].pc = 1]

DataUnchanged == items' = items /\ memory' = memory /\ dicts' = dicts

\* C1 as stated: a br 0 (or a taken br_if 0) in the body of a loop terminates the
\* loop; the next instruction is the one that follows the loop.
C1_Original == [][BranchedIn("loop") => (exc' = NoExc /\ AfterConstruct)]_vars

\* C1 amended: a br 0 (or a taken br_if 0) in the body of a loop, the loop being its
\* innermost construct, starts the body of that loop again at its first
\* instruction, with operand stack, memory and locals as they were at the branch;
\* the loop is not left.
C1_LoopBranchRepeats == [][BranchedIn("loop") => (exc' = NoExc /\ BodyAgain /\ DataUnchanged)]_vars

\* the loop of loop { const True; br 0 } has started its body a third time
C1_Witness ==
    /\ input.code = <<Loop(<<Const(T), OpN("br", 0)>>), Nine>>
    /\ last = "loop_break"
    /\ items = <<T, T>>
    /\ Len(frames) = 2 /\ Top.kind = "loop" /\ Top.pc = 1

\* the body of a loop has run to its end with no exception
LoopBodyEnded == Exhausted /\ Top.kind = "loop"

\* C2 as stated: when the body of a loop runs to normal completion the loop starts
\* the body again; a loop never exits by falling off the end of its body.
C2_Original == [][LoopBodyEnded => BodyAgain]_vars

\* C2 amended: when the body of a loop runs to normal completion the loop is left:
\* execution continues with the instruction that follows the loop, with operand
\* stack, memory and locals unchanged; a loop whose body contains no branch runs
\* its body exactly once.
C2_LoopEndLeaves ==
    /\ [][LoopBodyEnded => (exc' = NoExc /\ AfterConstruct /\ DataUnchanged)]_vars
    /\ [](input.code = <<Loop(<<Const(T), Const(F)>>), Nine>>
            => /\ Len(items) <= 3
               /\ status = "done" => items = <<T, F, IntV(9)>>)

\* loop { const True; const False } was left after one run of its body
C2_Witness ==
    /\ input.code = <<Loop(<<Const(T), Const(F)>>), Nine>>
    /\ status = "done"
    /\ items = <<T, F, IntV(9)>>

\* C3: a br 0 (or a taken br_if 0) in the body of a block, the block being its
\* innermost construct, is absorbed by the block: no exception is left, control is
\* at the instruction that follows the block, and operand stack, memory and locals
\* are as they were at the branch.
C3_BlockBranchLeaves ==
    /\ [][BranchedIn("block") => (exc' = NoExc /\ AfterConstruct /\ DataUnchanged)]_vars
    /\ [](input.code = <<Block(<<OpN("br", 0), Const(T)>>), Nine>>
            => /\ T \notin {items[i] : i \in 1..Len(items)}
               /\ status # "aborted")

\* block { br 0; const True } was left without the const, and the run went on
C3_Witness ==
    /\ input.code = <<Block(<<OpN("br", 0), Const(T)>>), Nine>>
    /\ status = "done"
    /\ items = <<IntV(9)>>

\* a Break with a level above 0 has reached a block or a loop
BreakPasses ==
    /\ Raising
    /\ exc.type = "Break" /\ exc.level > 0
    /\ Top.kind \in {"block", "loop"}

BlockLoopBr1 == <<Block(<<Loop(<<Const(T), OpN("br", 1)>>)>>), Nine>>

\* C4: a Break of level L > 0 that reaches a block or a loop leaves it (a loop does
\* not run its body again) and goes on to the enclosing construct with level L - 1;
\* block { loop { const True; br 1 } } runs the loop body once and ends after the
\* block.
C4_BranchCrosses ==
    /\ [][BreakPasses => /\ frames' = PopFrame(frames)
                         /\ exc' = [exc EXCEPT !.level = exc.level - 1]
                         /\ DataUnchanged]_vars
    /\ [](input.code = BlockLoopBr1
            => /\ Len(items) <= 2
               /\ status # "aborted"
               /\ status = "done" => items = <<T, IntV(9)>>)

\* block { loop { const True; br 1 } } has ended, the loop body having run once
C4_Witness ==
    /\ input.code = BlockLoopBr1
    /\ status = "done"
    /\ items = <<T, IntV(9)>>
    /\ last = "run_end"

\* a Break has left the body of a Defined function: it was raised inside a
\* Machine.call whose body has no construct left to absorb it
Escaped == Raising /\ exc.type = "Break" /\ exc.calls > 0

\* C5 as stated: a branch that escapes the body of a Defined function is a fatal
\* error: no block or loop of the caller absorbs it, it stays in flight until the
\* run is aborted.
C5_EscapedBranchFatal ==
    [][Escaped => (exc'.type = "Break" /\ Len(frames') < Len(frames))]_vars

\* a Return is passing a block or a loop
ReturnPasses == Raising /\ exc.type = "Return" /\ Top.kind \in {"block", "loop"}

\* a Return has reached the Machine.call of its activation, and the stack holds a
\* result if the function returns one
ReturnArrives ==
    /\ Raising /\ exc.type = "Return" /\ Top.kind = "call"
    /\ functions[Top.fn].returns => PopOk(items)

ReturnsFromLoop == Function(2, TRUE, <<Block(<<Loop(<<Const(IntV(7)), Op("return")>>)>>),
                                      Const(IntV(6))>>)
NestedCall == <<Block(<<OpN("call", 4), Const(IntV(8))>>), Nine>>

\* C6: a return in a Defined function, at any depth of blocks and loops, is passed
\* on unchanged by every block and loop (none absorbs it, no loop runs again), is
\* absorbed by the Machine.call of that activation, and the caller goes on with
\* the instruction after the call, its frames untouched; the stack still holds,
\* on top, the value that was on top at the return.  With nested calls the
\* caller's activation runs on after the callee's return.
C6_ReturnEndsActivation ==
    /\ [][ReturnPasses => (frames' = PopFrame(frames) /\ exc' = exc /\ DataUnchanged)]_vars
    /\ [][ReturnArrives => /\ exc' = NoExc
                           /\ AfterConstruct
                           /\ items' = items /\ memory' = memory
                           /\ dicts' = PopFrame(dicts)]_vars
    /\ [](exc.type = "Return" => exc.calls = 0)
    /\ []((input.code = NestedCall /\ input.functions[3] = ReturnsFromLoop)
            => /\ status # "aborted"
               /\ IntV(6) \notin {items[i] : i \in 1..Len(items)}
               /\ status = "done" => items = <<IntV(5), IntV(7), IntV(8), IntV(8), IntV(9)>>)

\* the callee returned from inside block { loop { .. } }: its caller, itself a
\* called function, is running its next instruction
C6_Witness ==
    /\ input.code = NestedCall /\ input.functions[3] = ReturnsFromLoop
    /\ last = "call_return"
    /\ Len(frames) = 3 /\ Top.kind = "call" /\ Top.fn = 5 /\ Top.pc = 4
    /\ items = <<IntV(5), IntV(7)>>

\* a return, or a branch whose level is at least the number of enclosing blocks
\* and loops, was executed in the top-level sequence and is in flight
Doomed ==
    /\ Raising
    /\ exc.calls = 0
    /\ \A i \in 1..Len(frames) : frames[i].kind # "call"
    /\ \/ exc.type = "Return"
       \/ exc.type = "Break" /\ exc.level >= Len(frames) - 1

\* C7: in a top-level sequence a return, or a br / taken br_if whose level is at
\* least the number of enclosing blocks and loops, aborts the run: every construct
\* passes it on, no instruction is executed any more, and the run ends aborted.
C7_TopLevelFatal ==
    /\ [][Doomed => /\ Len(frames') < Len(frames)
                    /\ exc'.type = exc.type
                    /\ DataUnchanged
                    /\ (Doomed' \/ status' = "aborted")]_vars
    /\ [][status # "aborted"]_vars

\* block { loop { br 2; const True } }: the br 2 has aborted the run
C7_Witness ==
    /\ input.code = <<Block(<<Loop(<<OpN("br", 2), Const(T)>>)>>), Nine>>
    /\ status = "aborted"
    /\ exc.type = "Break" /\ exc.level = 0
    /\ items = <<>>

\* a call instruction is about to run, its function exists and the stack holds
\* its arguments
Calling(kind) ==
    /\ Fetching /\ Ins.op = "call"
    /\ IndexOk(functions, Ins.n)
    /\ functions[IndexPos(functions, Ins.n)].kind = kind
    /\ Len(items) >= functions[IndexPos(functions, Ins.n)].nparams

Callee == functions[IndexPos(functions, Ins.n)]

\* the top n values of the stack, the deepest first
TopValues(n) == SubSeq(items, Len(items) - n + 1, Len(items))

\* the scenario of a "data" input: addresses, step, and the state the set-up leaves
ScenXa == input.code[1].val.v
ScenVa == input.code[4].val.v
ScenDt == input.code[6].val.v
ScenStack == [i \in 1..(Len(input.setup) - 2) |-> input.setup[i].val]
ScenMemory ==
    LET n == Len(input.setup)
    IN store(store(ZeroBytes(MemSize), input.setup[n - 1].addr, input.setup[n - 1].val),
             input.setup[n].addr, input.setup[n].val)

\* C8: call f removes exactly nparams values from the top of the stack and binds
\* them so that the deepest is local slot 0 and the topmost slot nparams - 1 of the
\* new activation; with f(x, v, dt) = x + v * dt at index 0, the program
\* [const xa, const xa, load, const va, load, const dt, call 0, store] leaves
\* memory at xa holding old mem[xa] + mem[va] * dt and the stack as it was.
C8_CallBindsArguments ==
    /\ [][Calling("Function") =>
            /\ items' = SubSeq(items, 1, Len(items) - Callee.nparams)
            /\ Len(dicts') = Len(dicts) + 1
            /\ \A i \in 1..NumLocals :
                  dicts'[Len(dicts')][i] =
                      IF i <= Callee.nparams THEN TopValues(Callee.nparams)[i] ELSE Unset
            /\ frames'[Len(frames')].locals = Len(dicts')]_vars
    /\ []((input.family = "data" /\ status = "done")
            => /\ load(memory, ScenXa) =
                     FloatV(load(ScenMemory, ScenXa).v + load(ScenMemory, ScenVa).v * ScenDt)
               /\ items = ScenStack)

\* x = 2 at 0, v = 3 at 8, dt = 2, one value on the stack before: the run ended with
\* 8 at address 0 and the stack as before
C8_Witness ==
    /\ input.family = "data" /\ status = "done"
    /\ ScenXa = 0 /\ ScenVa = 8 /\ ScenDt = 2
    /\ load(ScenMemory, 0) = FloatV(2) /\ load(ScenMemory, 8) = FloatV(3)
    /\ load(memory, 0) = FloatV(8)
    /\ items = <<IntV(5)>>

\* the call of a Defined function completes in this step: its body ran to its end
\* or returned, and the caller goes on
CallCompletes ==
    /\ status = "running" /\ Len(frames) > 0 /\ Top.kind = "call"
    /\ exc.type \in {"None", "Return"}
    /\ exc.type = "None" => Top.pc > Len(Top.code)
    /\ exc'.type = "None"
    /\ Len(frames') < Len(frames)

\* C9 as stated: after a call of a Defined function completes, the operand stack is
\* the stack as it was after the arguments were popped if returns is false, and
\* that stack plus exactly one value if returns is true.
C9_Original ==
    [][CallCompletes =>
         IF functions[Top.fn].returns
         THEN Len(items') = Len(Top.entry) + 1 /\ SubSeq(items', 1, Len(Top.entry)) = Top.entry
         ELSE items' = Top.entry]_vars

\* C9 amended: after a call of a Defined function completes, the operand stack is
\* exactly the stack the body left at its end or at its return (with returns true
\* the call pops the top value and pushes that value back, which needs a value to
\* be there; with returns false it touches nothing): the call itself adds and
\* removes no value.
C9_CallKeepsBodyStack ==
    [][CallCompletes => /\ items' = items
                        /\ functions[Top.fn].returns => PopOk(items)]_vars

LeavesSeven == Function(0, FALSE, <<Const(IntV(7))>>)

\* a function with returns false whose body is const 7 has completed: the 7 is on
\* the stack, above what the stack held when the call began
C9_Witness ==
    /\ input.code = CallG \o <<Nine>> /\ input.functions[3] = LeavesSeven
    /\ last = "call_end"
    /\ items = <<IntV(5), IntV(1), IntV(2), IntV(7)>>
    /\ Len(frames) = 1 /\ Top.pc = 4

\* C10: a call instruction that targets an ImportFunction calls the host callable
\* exactly once, with the popped arguments in parameter order (the deepest stack
\* value first), and pushes one value, the callable's result, if and only if the
\* import's returns is true; it changes the stack in no other way, changes no
\* locals, and the host is called by nothing else.
C10_ImportCall ==
    /\ [][Calling("ImportFunction") =>
            /\ hostLog' = Append(hostLog, [fn |-> IndexPos(functions, Ins.n),
                                            args |-> TopValues(Callee.nparams)])
            /\ SubSeq(items', 1, Len(items) - Callee.nparams)
                   = SubSeq(items, 1, Len(items) - Callee.nparams)
            /\ Len(items') = Len(items) - Callee.nparams + (IF Callee.returns THEN 1 ELSE 0)
            /\ Callee.returns => items'[Len(items')] \in Callee.results
            /\ dicts' = dicts /\ memory' = memory
            /\ frames' = Advance(frames)]_vars
    /\ [][hostLog' # hostLog => Calling("ImportFunction")]_vars

\* the import with two parameters and a result was called once, with (1, 2.0), and
\* its result 5.0 was pushed above the value the stack held before
C10_Witness ==
    /\ input.code = CallHost(3)
    /\ last = "call_import"
    /\ hostLog = <<[fn |-> 4, args |-> <<IntV(1), FloatV(2)>>]>>
    /\ items = <<IntV(5), FloatV(5)>>

\* C11 as stated: the memory has a fixed size: in every reachable state its length
\* is the capacity given at construction.
C11_MemoryFixed == Len(memory) = MemSize

\* the address is outside the memory of the capacity given at construction
OutOfRange(addr) == addr < 0 \/ addr + 8 > MemSize

\* a load / store instruction is about to access memory at an integer address
Loading == Fetching /\ Ins.op = "load" /\ PopOk(items) /\ IsIndex(popped(items))
Storing ==
    /\ Fetching /\ Ins.op = "store" /\ Len(items) >= 2
    /\ PackOk(popped(items)) /\ IsIndex(popped(pop(items)))

\* the driver is about to call m.store
ExtStoring == status = "idle" /\ setupPc <= Len(input.setup) /\ Setup.call = "store"

\* C12 as stated: Machine.store and Machine.load, and the store / load instructions,
\* fail for every addr < 0 and every addr with addr + 8 above the capacity, and a
\* failing access leaves every byte of memory unchanged.
C12_OutOfRangeFails ==
    [][/\ (Loading /\ OutOfRange(popped(items).v))
            => (exc'.type = "Error" /\ memory' = memory)
       /\ (Storing /\ OutOfRange(popped(pop(items)).v))
            => (exc'.type = "Error" /\ memory' = memory)
       /\ (ExtStoring /\ OutOfRange(Setup.addr))
            => (status' = "aborted" /\ memory' = memory)]_vars

\* an arithmetic instruction is about to take two operands, one of them a Boolean
BoolOperand ==
    /\ Fetching /\ Ins.op \in {"add", "sub", "mul"} /\ Len(items) >= 2
    /\ IsNumber(popped(items)) /\ IsNumber(popped(pop(items)))
    /\ "bool" \in {popped(items).t, popped(pop(items)).t}

\* br_if is about to take a condition that is a number, not a Boolean
NumberCondition ==
    /\ Fetching /\ Ins.op = "br_if" /\ PopOk(items)
    /\ popped(items).t \in {"int", "float", "f64raw"}

\* C13 as stated: a type mismatch is fatal: add, sub or mul with a Boolean operand
\* aborts instead of pushing a result, and br_if with a Number as its condition
\* aborts.
C13_TypeMismatchFatal ==
    [][(BoolOperand \/ NumberCondition) => exc'.type = "Error"]_vars

\* call f is about to run with f outside 0 .. len(functions) - 1
CallOutside ==
    Fetching /\ Ins.op = "call" /\ (Ins.n < 0 \/ Ins.n >= Len(functions))

\* C14 as stated: call f with f outside 0 .. len(functions) - 1, every negative f
\* included, is a fatal error: no function is invoked and no argument is popped or
\* pushed.
C14_CallOutsideFatal ==
    [][CallOutside => /\ exc'.type = "Error"
                      /\ items' = items
                      /\ hostLog' = hostLog
                      /\ Len(frames') <= Len(frames)]_vars

\* the instruction about to run is unknown, pops from an empty stack, or reads a
\* local slot that holds nothing
UnknownOp == Fetching /\ Ins.op \notin KnownOps
PopsEmpty ==
    /\ Fetching /\ items = <<>>
    /\ Ins.op \in {"add", "sub", "mul", "le", "ge", "load", "store", "local.set", "br_if"}
GetsUnset ==
    /\ Fetching /\ Ins.op = "local.get" /\ HasLocals /\ Locals[Ins.n + 1] = Unset

\* an error is in flight through the active constructs
ErrorInFlight == Raising /\ exc.type = "Error"

\* C15: an unknown opcode, a pop from an empty stack and a local.get of an unset slot
\* raise an error at whatever depth they occur, and every step of an error in flight
\* leaves one more enclosing block, loop or call with the error, the stack, the
\* memory and the host calls unchanged, until the run is aborted: nothing absorbs
\* it, no loop iterates again and no instruction runs after it.
C15_ErrorAbortsRun ==
    /\ [][/\ UnknownOp => (exc' = Error("RuntimeError") /\ frames' = frames)
          /\ PopsEmpty => (exc' = Error("IndexError") /\ frames' = frames)
          /\ GetsUnset => (exc' = Error("KeyError") /\ frames' = frames)
          /\ ErrorInFlight =>
                /\ exc'.type = "Error" /\ exc'.what = exc.what
                /\ frames' = IF Top.kind = "top" THEN <<>> ELSE PopFrame(frames)
                /\ status' = IF Top.kind = "top" THEN "aborted" ELSE "running"
                /\ items' = items /\ memory' = memory /\ hostLog' = hostLog]_vars
    /\ [](status = "done" => exc.type = "None")

\* an unknown opcode inside a block inside a loop of a function called from a block
\* inside a loop has aborted the run, leaving what was on the stack
C15_Witness ==
    /\ status = "aborted" /\ exc.what = "RuntimeError" /\ exc.calls = 1
    /\ input.family = "err" /\ input.functions[3] = FailsIn(Op("nop"))
    /\ input.code = <<Loop(<<Block(<<Const(IntV(1)), OpN("call", 2), Const(IntV(8))>>),
                             Const(IntV(7))>>), Const(IntV(7)), Const(IntV(9))>>
    /\ items = <<IntV(5)>>

\* the number of activations of functions among the first k frames
CallDepth(k) == Cardinality({j \in 1..k : frames[j].kind = "call"})

\* the call instruction is about to start a Function whose arguments are there
StartsFunction ==
    /\ Calling("Function")
    /\ Len(items) >= Callee.nparams
    /\ Len(frames) < MaxFrames

\* C16: every call of a Function starts with a new dictionary of locals that holds
\* argument i in slot i for i < nparams and nothing else; each activation has its own
\* dictionary, found by every block and loop inside it; and a step changes no
\* dictionary but that of the running activation, so a local.set of a callee, a
\* recursive one included, never changes the locals of its caller, which are after
\* the call what they were before it.
C16_LocalsPerActivation ==
    /\ [][/\ StartsFunction =>
                /\ Len(dicts') = Len(dicts) + 1
                /\ frames'[Len(frames')].locals = Len(dicts')
                /\ \A i \in 1..NumLocals :
                       dicts'[Len(dicts')][i] =
                           IF i <= Callee.nparams
                           THEN items[Len(items) - Callee.nparams + i]
                           ELSE Unset
          /\ \A i \in 1..Len(dicts) :
                (i <= Len(dicts') /\ (frames = <<>> \/ i # Top.locals))
                    => dicts'[i] = dicts[i]]_vars
    /\ [](/\ Len(dicts) = CallDepth(Len(frames))
          /\ \A k \in 1..Len(frames) : frames[k].locals = CallDepth(k))

\* Recursive(1) has called Recursive(0), which has overwritten its own slot 0 with 7
\* and returned 0; the caller has stored that in its slot 1 and still finds 1 in its
\* slot 0
C16_Witness ==
    /\ input.family = "locals" /\ input.code = <<Const(IntV(1)), OpN("call", 5)>>
    /\ Len(dicts) = 1 /\ dicts[1] = <<IntV(1), IntV(0), Unset>>
    /\ last = "local.get" /\ PopOk(items) /\ popped(items) = IntV(1)

\* local.get / local.set is about to run in an activation of a function
Getting == Fetching /\ Ins.op = "local.get" /\ HasLocals
Setting == Fetching /\ Ins.op = "local.set" /\ HasLocals /\ PopOk(items)

\* C17: local.set i stores the popped value in slot i of the running activation and
\* changes no other slot; no other step inside the activation, entering or leaving
\* its blocks and loop iterations included, changes its slots; and local.get i pushes
\* what slot i holds, so the value of the most recent local.set i of the activation,
\* or argument i, while local.get of a slot that holds nothing fails.
C17_LocalGetReadsLastSet ==
    [][/\ Getting =>
            IF dicts[Top.locals][Ins.n + 1] = Unset
            THEN exc' = Error("KeyError") /\ items' = items
            ELSE exc' = NoExc /\ items' = Append(items, dicts[Top.locals][Ins.n + 1])
       /\ Setting =>
            /\ dicts'[Top.locals][Ins.n + 1] = items[Len(items)]
            /\ \A i \in 1..NumLocals :
                   i # Ins.n + 1 => dicts'[Top.locals][i] = dicts[Top.locals][i]
       /\ (frames # <<>> /\ HasLocals /\ ~Setting /\ Len(dicts') >= Top.locals)
            => dicts'[Top.locals] = dicts[Top.locals]]_vars

\* Counts(0) is in the second iteration of its loop: local.get 1 has pushed the 3 that
\* the first iteration stored over the 4 set in the block before the loop
C17_Witness ==
    /\ input.family = "locals" /\ input.code = <<Const(IntV(0)), OpN("call", 6)>>
    /\ status = "running" /\ last = "local.get"
    /\ Top.kind = "loop" /\ Top.pc = 2
    /\ dicts = <<<<IntV(0), IntV(3), Unset>>>>
    /\ PopOk(items) /\ popped(items) = IntV(3)

\* the stack s the driver pushed before the run of an "arith" input, and the numbers
\* a and b and the operator of its program [const a, const b, op]
ArithS == [i \in 1..Len(input.setup) |-> input.setup[i].val]
ArithA == input.code[1].val.v
ArithB == input.code[2].val.v
ArithOp == input.code[3].op

\* C18: for numbers a and b and a stack s, the program [const a, const b, op] runs to
\* its end and leaves s plus exactly one value: a + b for add, a - b (the first pushed
\* minus the last pushed) for sub, a * b for mul, the Boolean a <= b for le and the
\* Boolean a >= b for ge.
C18_ConstConstOp ==
    (input.family = "arith") =>
        /\ status # "aborted"
        /\ (status = "done") =>
              /\ Len(items) = Len(ArithS) + 1
              /\ SubSeq(items, 1, Len(ArithS)) = ArithS
              /\ LET res == items[Len(items)]
                 IN CASE ArithOp = "add" ->
                            res.t \in {"int", "float"} /\ res.v = ArithA + ArithB
                      [] ArithOp = "sub" ->
                            res.t \in {"int", "float"} /\ res.v = ArithA - ArithB
                      [] ArithOp = "mul" ->
                            res.t \in {"int", "float"} /\ res.v = ArithA * ArithB
                      [] ArithOp = "le" -> res = BoolV(ArithA <= ArithB)
                      [] ArithOp = "ge" -> res = BoolV(ArithA >= ArithB)

\* [const -2, const 3, sub] has run on the stack [True, 2.0] and left -5 on top of it
C18_Witness ==
    /\ input.family = "arith" /\ status = "done"
    /\ input.code = <<Const(IntV(-2)), Const(IntV(3)), Op("sub")>>
    /\ items = <<T, FloatV(2), IntV(-5)>>

\* the addresses at which 8 bytes lie within the capacity, and numbers to store: ints
\* and floats of both signs and a double that is no integer
InRange == 0..(MemSize - 8)
RoundVals == MemVals \cup {FloatV(-70), RawV(<<1, 2, 3, 4, 5, 6, 7, 8>>)}

\* the double that v is stored as
AsDouble(v) == IF v.t = "f64raw" THEN v ELSE FloatV(v.v)

\* C19: for every address addr with 0 <= addr and addr + 8 <= capacity and every
\* number v, store(addr, v) followed by load(addr) yields v as a double, whatever the
\* memory holds, earlier overlapping stores included: both for Machine.store and
\* Machine.load applied to every reachable memory (each is first seen at
\* construction or right after a store), and for the program
\* [const addr, const v, store, const addr, load] run after an earlier store.
C19_RoundTrip ==
    /\ (last \in {"init", "ext_store", "store"}) =>
           \A addr \in InRange : \A v \in RoundVals :
               LET stored == store(memory, addr, v)
               IN LoadOk(stored, addr) /\ load(stored, addr) = AsDouble(v)
    /\ (input.family = "mem") =>
           /\ status # "aborted"
           /\ (status = "done") => items = <<AsDouble(input.code[2].val)>>

\* -2.0 was stored at 3 and loaded back after an earlier store of 3.0 at 5 that
\* overlaps it
C19_Witness ==
    /\ input.family = "mem" /\ status = "done"
    /\ input.setup = <<ExtStore(5, FloatV(3))>>
    /\ input.code = StoreLoad(3, FloatV(-2))
    /\ items = <<FloatV(-2)>>
    /\ load(memory, 5) # FloatV(3)

\* the interpreter runs on while it has a step to take
FairSpec == Spec /\ WF_vars(Next)

\* the run of the demonstration program: x and v as memory holds them, the x shown by
\* the k-th call of the host display function, and the change of x between two calls
InDemo == input.family = "demo"
DemoXNow == load(memory, 0).v
DemoVNow == load(memory, 8).v
Shown(k) == hostLog[k].args[1].v
Moved(k) == Shown(k + 1) - Shown(k)

\* the loop of the demonstration program is active (frame 3, inside the outer block)
InDemoLoop(fs) == Len(fs) >= 3

\* C20: the demonstration program of example(), started with x = 2.3 and v = 3.0,
\* terminates.  The display function is called by the third instruction of the loop
\* body only, with the current x; an iteration runs its instructions in order, starts
\* again only from the final br 0 and is left only by br_if 1 when x <= 0, so the
\* display is called exactly once per iteration.  v changes only by being negated
\* when x >= limit, and x moves by v * dt, turning exactly at each such crossing: it
\* rises until x >= limit, then falls until x <= 0, with one crossing in all.
C20_DemoTerminates ==
    /\ InDemo ~> (status = "done")
    /\ [][InDemo =>
            /\ (hostLog' # hostLog) =>
                  /\ Len(frames) = 3 /\ frames[3].pc = 3 /\ frames'[3].pc = 4
                  /\ hostLog' = Append(hostLog, [fn |-> 2, args |-> <<FloatV(DemoXNow)>>])
            /\ (InDemoLoop(frames) /\ InDemoLoop(frames')) =>
                  \/ frames'[3].pc \in {frames[3].pc, frames[3].pc + 1}
                  \/ frames[3].pc = 18 /\ frames'[3].pc = 1
            /\ (InDemoLoop(frames) /\ ~InDemoLoop(frames')) =>
                  /\ frames[3].pc = 8 /\ exc = Break(1) /\ DemoXNow <= 0
            /\ (status = "running" /\ DemoVNow' # DemoVNow) =>
                  /\ DemoXNow >= DemoLimit /\ DemoVNow' = 0 - DemoVNow]_vars
    /\ [](InDemo =>
            /\ status # "aborted"
            /\ \A k \in 1..Len(hostLog) :
                  k >= Len(hostLog) - 2 =>
                      /\ k < Len(hostLog) => Shown(k) > 0
                      /\ k = 1 /\ k < Len(hostLog) => Moved(k) = DemoV
                      /\ k + 2 <= Len(hostLog) =>
                            Moved(k + 1) = IF Shown(k + 1) >= DemoLimit
                                           THEN 0 - Moved(k) ELSE Moved(k)
            /\ (status = "done") =>
                  /\ Shown(Len(hostLog)) <= 0
                  /\ Cardinality({k \in 1..Len(hostLog) : Shown(k) >= DemoLimit}) = 1
                  /\ \E p \in 1..Len(hostLog) :
                        /\ Shown(p) >= DemoLimit
                        /\ \A k \in 1..(Len(hostLog) - 1) :
                              Moved(k) = IF k < p THEN DemoV ELSE 0 - DemoV)

\* the demonstration program has ended: the display was called 461 times, x is at
\* -0.1 and v is -3.0
C20_Witness ==
    /\ InDemo /\ status = "done"
    /\ Len(hostLog) = 461
    /\ DemoXNow = -1 /\ DemoVNow = 0 - DemoV
    /\ Shown(1) = DemoX /\ Shown(227) = 701 /\ Shown(461) = -1

====
